---- MODULE Spec2Model ----
(***************************************************************************)
(* Model of the personal-finance backend: the account handler              *)
(* (src/src/account/index.js) with its version-conditioned update, soft    *)
(* delete and audit trail, and the read paths of the other resources.      *)
(*                                                                         *)
(* Every DynamoDB call is one atomic step of the store.  A handler         *)
(* invocation that writes the account table and then the audit table is    *)
(* two steps: the request sits in `pending` between them, so that other    *)
(* invocations interleave with it.  Validation is local to an invocation   *)
(* and is part of the step of its first store call.                        *)
(***************************************************************************)
EXTENDS Integers, Sequences, FiniteSets, TLC

\* ------------------------------------------------------------------ bounds
MaxTransactions == 3      \* transactions one caller has
MaxTime    == 1           \* the clock runs over 0..MaxTime
MaxWrites  == 2           \* account mutations applied in one run
MaxVersion == 3           \* cap of the Version counter
MaxUpdates == 2           \* Update requests the race log follows
MaxGoals   == 2           \* goals one caller has
MaxCategories == 6        \* categories the caller's transactions fall in
MaxExports == 2           \* exports under way or uploaded in one run

\* ------------------------------------------------------- program constants
MaxNameLen   == 100       \* accountSchema: AccountName max(100)
DefaultLimit == 20        \* getAllAccounts: limit = 20

\* The caller identities the gateway attaches (claims.sub).
Users == {"u1", "u2"}

\* A request whose event carries no claims.sub.
NoUser == ""

\* What a request may carry as its identity.
Callers == Users \cup {NoUser}

\* The identifiers uuidv4() hands out; a scan reads the table in this order.
AccountIds == {1, 2}
BudgetIds  == {1, 2}

VARIABLES
    accounts,   \* the account table: AccountID -> item
    audit,      \* the audit table, in the order the events were put
    pending,    \* invocations between their account write and their audit write
    now,        \* the wall clock, as last read
    last,       \* the last step of a handler: the request and its outcome
    updateLog,  \* the Update requests answered so far (followed under SpecRace)
    budgets,    \* the budget table: BudgetID -> item
    users,      \* the user table: UserID -> item
    transactions, \* the transaction table, in the order a scan returns it
    budgetItems,  \* the budget table as the analytics scan returns it
    goals,      \* the goal table, in the order a scan returns it
    bucket,     \* the export bucket: object key -> object body
    exporting   \* export invocations between their scan and their upload

vars == <<accounts, audit, pending, now, last, updateLog, budgets, users,
          transactions, budgetItems, goals, bucket, exporting>>

\* what the analytics and export handlers read and write
reportState == <<transactions, budgetItems, goals, bucket, exporting>>

\* what the account handler never touches
otherTables == <<budgets, users, reportState>>

\* --------------------------------------------------------- request bodies
\* JSON.parse(body): the keys the object has, and their values.  A key that
\* is absent reads as undefined; its slot below is then a fixed filler.
MkBody(keys, name, balance, type, version) ==
    [keys |-> keys, AccountName |-> name, Balance |-> balance,
     Type |-> type, Version |-> version]

NoBody == MkBody({}, <<>>, 0, "", 0)

AccountSchemaKeys == {"AccountName", "Balance", "Type"}

AccountTypes == {"Checking", "Savings", "Credit Card", "Investment"}

\* An accountSchema that takes any Type
accountSchema_AnyType(account) ==
    /\ "AccountName" \in account.keys
    /\ Len(account.AccountName) >= 1
    /\ Len(account.AccountName) <= MaxNameLen
    /\ "Balance" \in account.keys
    /\ "Type" \in account.keys
    /\ account.keys \subseteq AccountSchemaKeys

\* Joi.object({...}).validate(account): every key is required, a string is
\* non-empty, and a key the schema does not name is rejected ('"Version" is
\* not allowed': Joi's allowUnknown defaults to false).
accountSchema(account) ==
    /\ "AccountName" \in account.keys
    /\ Len(account.AccountName) >= 1
    /\ Len(account.AccountName) <= MaxNameLen
    /\ "Balance" \in account.keys
    /\ "Type" \in account.keys
    /\ account.Type \in AccountTypes
    /\ account.keys \subseteq AccountSchemaKeys

\* The characters of /[\w\s.-]/ among those the model's names are made of.
KeptChars == {"A", "b", "7", "_", " ", ".", "-"}

IsKept(c) == c \in KeptChars

\* input.replace(/[^\w\s.-]/gi, '')
sanitizeInput(input) == SelectSeq(input, IsKept)

\* The bodies the model sends, one for each way validation can go: valid (with
\* a name to sanitize), a Type outside the enum, and valid fields with the
\* Version an update is to supply.
AccountBodies ==
    { MkBody(AccountSchemaKeys, <<"A", "!">>, 100, "Savings", 0),
      MkBody(AccountSchemaKeys, <<"A">>, 100, "Bogus", 0),
      MkBody(AccountSchemaKeys \cup {"Version"}, <<"A">>, 150, "Savings", 1) }

\* A DELETE request may carry a body; the handler never reads it.
DeleteBodies ==
    { NoBody, MkBody({"Version"}, <<>>, 0, "", 2) }

\* ------------------------------------------------------------- the store
Stored(accountId) ==
    IF accountId \in DOMAIN accounts THEN {accounts[accountId]} ELSE {}

\* A createAccount that starts the version counter at 0
NewAccount_VersionZero(userId, account, accountId, t1, t2) ==
    [AccountID   |-> accountId,
     AccountName |-> sanitizeInput(account.AccountName),
     Balance     |-> account.Balance,
     Type        |-> account.Type,
     UserID      |-> userId,
     IsActive    |-> TRUE,
     Version     |-> 0,
     CreatedAt   |-> t1,
     UpdatedAt   |-> t2]

\* createAccount: the item put
NewAccount(userId, account, accountId, t1, t2) ==
    [AccountID   |-> accountId,
     AccountName |-> sanitizeInput(account.AccountName),
     Balance     |-> account.Balance,
     Type        |-> account.Type,
     UserID      |-> userId,
     IsActive    |-> TRUE,
     Version     |-> 1,
     CreatedAt   |-> t1,
     UpdatedAt   |-> t2]

\* updateAccount: ConditionExpression
\*   'UserID = :userId AND IsActive = :isActive AND Version = :version'
UpdateCondition(userId, accountId, version) ==
    /\ accountId \in DOMAIN accounts
    /\ accounts[accountId].UserID = userId
    /\ accounts[accountId].IsActive = TRUE
    /\ accounts[accountId].Version = version

\* updateAccount: UpdateExpression
UpdateItem(item, account, t) ==
    [item EXCEPT !.AccountName = sanitizeInput(account.AccountName),
                 !.Balance = account.Balance,
                 !.Type = account.Type,
                 !.UpdatedAt = t,
                 !.Version = item.Version + 1]

\* A deleteAccount whose condition leaves out the owner
DeleteCondition_AnyOwner(userId, accountId) ==
    /\ accountId \in DOMAIN accounts
    /\ accounts[accountId].IsActive = TRUE

\* deleteAccount: ConditionExpression 'UserID = :userId AND IsActive = :currentActive'
DeleteCondition(userId, accountId) ==
    /\ accountId \in DOMAIN accounts
    /\ accounts[accountId].UserID = userId
    /\ accounts[accountId].IsActive = TRUE

\* A deleteAccount that also advances the version counter
DeleteItem_BumpsVersion(item, t) ==
    [item EXCEPT !.IsActive = FALSE, !.UpdatedAt = t, !.Version = item.Version + 1]

\* A deleteAccount that stamps the item and does not clear IsActive
DeleteItem_KeepsActive(item, t) == [item EXCEPT !.UpdatedAt = t]

\* deleteAccount: UpdateExpression 'set IsActive = :isActive, UpdatedAt = :updatedAt'
DeleteItem(item, t) ==
    [item EXCEPT !.IsActive = FALSE, !.UpdatedAt = t]

\* dynamodb.put / dynamodb.update of one item of the account table
PutItem(table, item) ==
    [k \in DOMAIN table \cup {item.AccountID} |->
        IF k = item.AccountID THEN item ELSE table[k]]

\* A deleteAccount that removes the item, as the other resources' deletes do
DeleteApply_Hard(table, accountId, t) ==
    [k \in DOMAIN table \ {accountId} |-> table[k]]

\* A deleteAccount that stamps the item and leaves it active
DeleteApply_StaysActive(table, accountId, t) ==
    PutItem(table, [table[accountId] EXCEPT !.UpdatedAt = t])

\* deleteAccount: the table after its dynamodb.update
DeleteApply(table, accountId, t) ==
    PutItem(table, DeleteItem(table[accountId], t))

\* A getAccount that leaves out the IsActive check
GetVisible_IgnoresActive(userId, accountId) ==
    /\ accountId \in DOMAIN accounts
    /\ accounts[accountId].UserID = userId

\* getAccount: !result.Item || result.Item.UserID !== userId || !result.Item.IsActive
GetVisible(userId, accountId) ==
    /\ accountId \in DOMAIN accounts
    /\ accounts[accountId].UserID = userId
    /\ accounts[accountId].IsActive

\* getAllAccounts: FilterExpression 'UserID = :userId AND IsActive = :isActive'
ListFilter(item, userId) ==
    item.UserID = userId /\ item.IsActive = TRUE

\* dynamodb.scan with ExclusiveStartKey and Limit: the store reads up to
\* Limit items after the start key, in key order, and filters what it read.
ScanAccounts(userId, lastEvaluatedKey, limit) ==
    LET after == {k \in DOMAIN accounts : k > lastEvaluatedKey}
        read  == {k \in after : Cardinality({j \in after : j < k}) < limit}
    IN  {accounts[k] : k \in {j \in read : ListFilter(accounts[j], userId)}}

\* the action tag each operation logs
AuditAction(op) ==
    CASE op = "create" -> "CREATE_ACCOUNT"
      [] op = "update" -> "UPDATE_ACCOUNT"
      [] op = "delete" -> "DELETE_ACCOUNT"

\* ------------------------------------------------------------ the steps
\* What one step of a handler leaves behind: the request (op, caller, id,
\* body), whether the step is the commit of the account write ("commit",
\* no response yet) or the response ("respond", with its status code), the
\* items returned, and the stored item the store call found (pre).
Event(op, step, caller, id, body, status, items, pre) ==
    [op |-> op, step |-> step, caller |-> caller, id |-> id, body |-> body,
     status |-> status, items |-> items, pre |-> pre]

\* An invocation that has written the account table and not yet the audit table
Invocation(op, caller, id, body, item, pre) ==
    [op |-> op, caller |-> caller, id |-> id, body |-> body, item |-> item,
     pre |-> pre]

\* The account mutations applied so far, read off the table: one put per
\* record, one soft delete per inactive record, one update per version step
RECURSIVE UpdatesApplied(_)
UpdatesApplied(ids) ==
    IF ids = {} THEN 0
    ELSE LET id == CHOOSE k \in ids : TRUE
         IN  (accounts[id].Version - 1) + UpdatesApplied(ids \ {id})

Writes ==
    Cardinality(DOMAIN accounts)
      + Cardinality({id \in DOMAIN accounts : ~accounts[id].IsActive})
      + UpdatesApplied(DOMAIN accounts)

Init ==
    /\ accounts = << >>
    /\ audit = << >>
    /\ pending = {}
    /\ now = 0
    /\ last = Event("none", "respond", "u1", 0, NoBody, 0, {}, {})
    /\ updateLog = {}
    /\ budgets = << >>
    /\ users = << >>
    /\ transactions = << >>
    /\ budgetItems = << >>
    /\ goals = << >>
    /\ bucket = << >>
    /\ exporting = {}

\* createAccount, up to and including the put of the account
CreateAccount(userId, account) ==
    IF ~accountSchema(account)
    THEN /\ last' = Event("create", "respond", userId, 0, account, 400, {}, {})
         /\ UNCHANGED <<accounts, audit, pending, now>>
    ELSE /\ Writes < MaxWrites
         /\ \E accountId \in AccountIds \ DOMAIN accounts,
               t1 \in now..MaxTime : \E t2 \in t1..MaxTime :
               LET newAccount == NewAccount(userId, account, accountId, t1, t2) IN
               /\ now' = t2
               /\ accounts' = PutItem(accounts, newAccount)
               /\ pending' = pending \cup
                    {Invocation("create", userId, accountId, account, newAccount, {})}
               /\ last' = Event("create", "commit", userId, accountId, account, 0,
                                {newAccount}, {})
               /\ UNCHANGED audit

\* updateAccount, up to and including dynamodb.update
UpdateAccount(userId, accountId, account) ==
    IF ~accountSchema(account)
    THEN /\ last' = Event("update", "respond", userId, accountId, account, 400,
                          {}, Stored(accountId))
         /\ UNCHANGED <<accounts, audit, pending, now>>
    ELSE IF "Version" \notin account.keys
    THEN \* ':version' is undefined: the call is rejected with an error that is
         \* not ConditionalCheckFailedException, and the handler answers 500
         /\ last' = Event("update", "respond", userId, accountId, account, 500,
                          {}, Stored(accountId))
         /\ UNCHANGED <<accounts, audit, pending, now>>
    ELSE IF ~UpdateCondition(userId, accountId, account.Version)
    THEN /\ last' = Event("update", "respond", userId, accountId, account, 409,
                          {}, Stored(accountId))
         /\ UNCHANGED <<accounts, audit, pending, now>>
    ELSE /\ Writes < MaxWrites
         /\ accounts[accountId].Version < MaxVersion
         /\ \E t \in now..MaxTime :
               LET attributes == UpdateItem(accounts[accountId], account, t) IN
               /\ now' = t
               /\ accounts' = PutItem(accounts, attributes)
               /\ pending' = pending \cup
                    {Invocation("update", userId, accountId, account, attributes,
                                Stored(accountId))}
               /\ last' = Event("update", "commit", userId, accountId, account, 0,
                                {attributes}, Stored(accountId))
               /\ UNCHANGED audit

\* deleteAccount, up to and including dynamodb.update
DeleteAccount(userId, accountId, body) ==
    IF ~DeleteCondition(userId, accountId)
    THEN /\ last' = Event("delete", "respond", userId, accountId, body, 404,
                          {}, Stored(accountId))
         /\ UNCHANGED <<accounts, audit, pending, now>>
    ELSE /\ Writes < MaxWrites
         /\ \E t \in now..MaxTime :
               LET attributes == DeleteItem(accounts[accountId], t) IN
               /\ now' = t
               /\ accounts' = DeleteApply(accounts, accountId, t)
               /\ pending' = pending \cup
                    {Invocation("delete", userId, accountId, body, attributes,
                                Stored(accountId))}
               /\ last' = Event("delete", "commit", userId, accountId, body, 0,
                                {attributes}, Stored(accountId))
               /\ UNCHANGED audit

\* A put that takes the place of the events already in the table
PutAudit_Replaces(table, auditEvent) == <<auditEvent>>

\* logAuditEvent: dynamodb.put into the audit table under a fresh AuditID
PutAudit(table, auditEvent) == Append(table, auditEvent)

\* A logAuditEvent that leaves the acting user out of the event
AuditEvent_NoActor(r, t) ==
    [AuditID    |-> Len(audit) + 1,
     UserID     |-> NoUser,
     Action     |-> AuditAction(r.op),
     Timestamp  |-> t,
     accountId  |-> r.id,
     oldVersion |-> IF r.op = "update" THEN r.body.Version ELSE 0,
     newVersion |-> IF r.op = "update" THEN r.item.Version ELSE 0]

\* logAuditEvent: the event put for an invocation
AuditEvent(r, t) ==
    [AuditID    |-> Len(audit) + 1,
     UserID     |-> r.caller,
     Action     |-> AuditAction(r.op),
     Timestamp  |-> t,
     accountId  |-> r.id,
     oldVersion |-> IF r.op = "update" THEN r.body.Version ELSE 0,
     newVersion |-> IF r.op = "update" THEN r.item.Version ELSE 0]

\* The status createAccount, updateAccount and deleteAccount answer with
SuccessStatus(op) == IF op = "create" THEN 201 ELSE 200

\* The rest of createAccount, updateAccount and deleteAccount: logAuditEvent,
\* then the response
LogAuditEvent(r) ==
    \E t \in now..MaxTime :
    /\ now' = t
    /\ audit' = PutAudit(audit, AuditEvent(r, t))
    /\ pending' = pending \ {r}
    /\ last' = Event(r.op, "respond", r.caller, r.id, r.body, SuccessStatus(r.op),
                     IF r.op = "delete" THEN {} ELSE {r.item}, r.pre)
    /\ UNCHANGED accounts

\* getAccount
GetAccount(userId, accountId) ==
    /\ last' = IF GetVisible(userId, accountId)
               THEN Event("get", "respond", userId, accountId, NoBody, 200,
                          Stored(accountId), Stored(accountId))
               ELSE Event("get", "respond", userId, accountId, NoBody, 404,
                          {}, Stored(accountId))
    /\ UNCHANGED <<accounts, audit, pending, now>>

\* getAllAccounts
GetAllAccounts(userId, lastEvaluatedKey, limit) ==
    /\ last' = Event("list", "respond", userId, lastEvaluatedKey, NoBody, 200,
                     ScanAccounts(userId, lastEvaluatedKey, limit), {})
    /\ UNCHANGED <<accounts, audit, pending, now>>

\* The account handler: one step of one invocation
\* handler: getUserId(event) throws before the switch on httpMethod, and the
\* catch answers 401
Unauthorized ==
    /\ last' = Event("unauthorized", "respond", NoUser, 0, NoBody, 401, {}, {})
    /\ UNCHANGED <<accounts, audit, pending, now>>

Next ==
    \/ Unauthorized /\ UNCHANGED <<updateLog, otherTables>>
    \/ \E userId \in Users, account \in AccountBodies :
          CreateAccount(userId, account) /\ UNCHANGED <<updateLog, otherTables>>
    \/ \E userId \in Users, accountId \in AccountIds, account \in AccountBodies :
          UpdateAccount(userId, accountId, account) /\ UNCHANGED <<updateLog, otherTables>>
    \/ \E userId \in Users, accountId \in AccountIds, body \in DeleteBodies :
          DeleteAccount(userId, accountId, body) /\ UNCHANGED <<updateLog, otherTables>>
    \/ \E r \in pending : LogAuditEvent(r) /\ UNCHANGED <<updateLog, otherTables>>
    \/ \E userId \in Users, accountId \in AccountIds :
          GetAccount(userId, accountId) /\ UNCHANGED <<updateLog, otherTables>>
    \/ \E userId \in Users, lastEvaluatedKey \in {0, 1},
          limit \in {1, DefaultLimit} :
          GetAllAccounts(userId, lastEvaluatedKey, limit)
             /\ UNCHANGED <<updateLog, otherTables>>

Spec == Init /\ [][Next]_vars

\* ---------------------------------------------- a failing audit write
\* A table the failed audit write has put back as the invocation found it
AfterAuditFailure_RollsBack(table, r) ==
    IF r.pre = {}
    THEN [k \in DOMAIN table \ {r.id} |-> table[k]]
    ELSE PutItem(table, CHOOSE item \in r.pre : TRUE)

\* A handler that makes the account active again when the audit write of its
\* soft delete fails
AfterAuditFailure_Reactivates(table, r) ==
    IF r.op = "delete"
    THEN PutItem(table, [table[r.id] EXCEPT !.IsActive = TRUE])
    ELSE table

\* The account table after logAuditEvent has thrown: the error leaves
\* createAccount / updateAccount / deleteAccount (updateAccount's catch
\* rethrows what is not ConditionalCheckFailedException) and the handler's
\* catch answers; nothing writes the account table again
AfterAuditFailure(table, r) == table

\* logAuditEvent's dynamodb.put rejects; the handler's catch answers 500
AuditFails(r) ==
    /\ pending' = pending \ {r}
    /\ accounts' = AfterAuditFailure(accounts, r)
    /\ last' = Event(r.op, "respond", r.caller, r.id, r.body, 500, {}, r.pre)
    /\ UNCHANGED <<audit, now>>

\* the invocations that write, each of whose audit writes may fail
NextAuditFail ==
    \/ \E userId \in Users, account \in AccountBodies :
          CreateAccount(userId, account) /\ UNCHANGED <<updateLog, otherTables>>
    \/ \E userId \in Users, accountId \in AccountIds, account \in AccountBodies :
          UpdateAccount(userId, accountId, account) /\ UNCHANGED <<updateLog, otherTables>>
    \/ \E userId \in Users, accountId \in AccountIds, body \in DeleteBodies :
          DeleteAccount(userId, accountId, body) /\ UNCHANGED <<updateLog, otherTables>>
    \/ \E r \in pending : LogAuditEvent(r) /\ UNCHANGED <<updateLog, otherTables>>
    \/ \E r \in pending : AuditFails(r) /\ UNCHANGED <<updateLog, otherTables>>

SpecAuditFail == Init /\ [][NextAuditFail]_vars

\* ------------------------------------------------- racing Update requests
\* The account handler again, with every Update invocation written to
\* updateLog when its store call (or the validation before it) has decided it.
\* Requests race: a second one may start at any point after the first has
\* started, in particular between its table write and its audit write.
LogEntry(e, applied) ==
    [n       |-> Cardinality(updateLog) + 1,
     caller  |-> e.caller,
     id      |-> e.id,
     body    |-> e.body,
     status  |-> IF applied THEN 200 ELSE e.status,
     applied |-> applied]

\* the racing requests carry valid fields and a Version
RaceBodies == {account \in AccountBodies : "Version" \in account.keys}

RaceUpdate(userId, accountId, account) ==
    /\ Cardinality(updateLog) < MaxUpdates
    /\ UpdateAccount(userId, accountId, account)
    /\ updateLog' = updateLog \cup {LogEntry(last', last'.step = "commit")}

NextRace ==
    \/ \E userId \in Users, account \in AccountBodies :
          CreateAccount(userId, account) /\ UNCHANGED <<updateLog, otherTables>>
    \/ \E userId \in Users, accountId \in AccountIds, account \in RaceBodies :
          RaceUpdate(userId, accountId, account) /\ UNCHANGED otherTables
    \/ \E userId \in Users, accountId \in AccountIds, body \in DeleteBodies :
          DeleteAccount(userId, accountId, body) /\ UNCHANGED <<updateLog, otherTables>>
    \/ \E r \in pending :
          LogAuditEvent(r) /\ UNCHANGED <<updateLog, otherTables>>

SpecRace == Init /\ [][NextRace]_vars

\* ------------------------------------------------------- budget handler
\* src/src/budget/index.js. The handler takes httpMethod, path, body and
\* pathParameters from the event and nothing else: the caller's identity
\* (requestContext.authorizer.claims.sub) is an input of every request below
\* and is read by none of them.
MkBudget(keys, userId, category, amount, period) ==
    [keys |-> keys, UserID |-> userId, Category |-> category,
     Amount |-> amount, Period |-> period]

BudgetSchemaKeys == {"UserID", "Category", "Amount", "Period"}
BudgetPeriods == {"weekly", "monthly", "yearly"}

\* budgetSchema.validate(budget) reports no error
budgetSchema(budget) ==
    /\ budget.keys = BudgetSchemaKeys
    /\ budget.UserID # ""
    /\ budget.Category # ""
    /\ budget.Amount > 0
    /\ budget.Period \in BudgetPeriods

\* the request bodies explored: one naming each user, one with Amount 0
BudgetBodies ==
    { MkBudget(BudgetSchemaKeys, "u1", "food", 50, "monthly"),
      MkBudget(BudgetSchemaKeys, "u2", "rent", 900, "yearly"),
      MkBudget(BudgetSchemaKeys, "u1", "food", 0, "monthly") }

\* POST: the item put is the body with BudgetID added
BudgetItem(budget, budgetId) ==
    [BudgetID |-> budgetId,
     attrs    |-> budget.keys \cup {"BudgetID"},
     UserID   |-> budget.UserID,
     Category |-> budget.Category,
     Amount   |-> budget.Amount,
     Period   |-> budget.Period]

\* PUT: dynamodb.update with no ConditionExpression sets three attributes of
\* the item with that key, and creates the item (key and the three attributes,
\* no UserID) when there is none
BudgetUpdated(budgetId, budget) ==
    IF budgetId \in DOMAIN budgets
    THEN [budgets[budgetId] EXCEPT !.attrs = @ \cup {"Category", "Amount", "Period"},
                                   !.Category = budget.Category,
                                   !.Amount = budget.Amount,
                                   !.Period = budget.Period]
    ELSE [BudgetID |-> budgetId,
          attrs    |-> {"BudgetID", "Category", "Amount", "Period"},
          UserID   |-> "",
          Category |-> budget.Category,
          Amount   |-> budget.Amount,
          Period   |-> budget.Period]

BudgetStored(budgetId) ==
    IF budgetId \in DOMAIN budgets THEN {budgets[budgetId]} ELSE {}

\* GET /budget: scan of the whole table, no FilterExpression
ScanBudgets == {budgets[k] : k \in DOMAIN budgets}

\* POST /budget
PostBudget(caller, budget) ==
    IF ~budgetSchema(budget)
    THEN /\ last' = Event("budget.post", "respond", caller, 0, budget, 400, {}, {})
         /\ UNCHANGED budgets
    ELSE \E budgetId \in BudgetIds \ DOMAIN budgets :
            LET item == BudgetItem(budget, budgetId)
            IN  /\ budgets' = [k \in DOMAIN budgets \cup {budgetId} |->
                                  IF k = budgetId THEN item ELSE budgets[k]]
                /\ last' = Event("budget.post", "respond", caller, budgetId, budget,
                                 201, {item}, {})

\* GET /budget
GetBudgets(caller) ==
    /\ last' = Event("budget.list", "respond", caller, 0, NoBody, 200, ScanBudgets, {})
    /\ UNCHANGED budgets

\* GET /budget/{id}
GetBudget(caller, budgetId) ==
    /\ last' = IF budgetId \in DOMAIN budgets
               THEN Event("budget.get", "respond", caller, budgetId, NoBody, 200,
                          BudgetStored(budgetId), BudgetStored(budgetId))
               ELSE Event("budget.get", "respond", caller, budgetId, NoBody, 404, {}, {})
    /\ UNCHANGED budgets

\* PUT /budget/{id}
PutBudget(caller, budgetId, budget) ==
    IF ~budgetSchema(budget)
    THEN /\ last' = Event("budget.put", "respond", caller, budgetId, budget, 400, {},
                          BudgetStored(budgetId))
         /\ UNCHANGED budgets
    ELSE LET item == BudgetUpdated(budgetId, budget)
         IN  /\ budgets' = [k \in DOMAIN budgets \cup {budgetId} |->
                               IF k = budgetId THEN item ELSE budgets[k]]
             /\ last' = Event("budget.put", "respond", caller, budgetId, budget, 200,
                              {item}, BudgetStored(budgetId))

\* DELETE /budget/{id}
DeleteBudget(caller, budgetId) ==
    /\ budgets' = [k \in DOMAIN budgets \ {budgetId} |-> budgets[k]]
    /\ last' = Event("budget.delete", "respond", caller, budgetId, NoBody, 200, {},
                     BudgetStored(budgetId))

NextBudget ==
    \/ \E caller \in Callers, budget \in BudgetBodies :
          PostBudget(caller, budget)
             /\ UNCHANGED <<accounts, audit, pending, now, updateLog, users, reportState>>
    \/ \E caller \in Callers :
          GetBudgets(caller)
             /\ UNCHANGED <<accounts, audit, pending, now, updateLog, users, reportState>>
    \/ \E caller \in Callers, budgetId \in BudgetIds :
          GetBudget(caller, budgetId)
             /\ UNCHANGED <<accounts, audit, pending, now, updateLog, users, reportState>>
    \/ \E caller \in Callers, budgetId \in BudgetIds, budget \in BudgetBodies :
          PutBudget(caller, budgetId, budget)
             /\ UNCHANGED <<accounts, audit, pending, now, updateLog, users, reportState>>
    \/ \E caller \in Callers, budgetId \in BudgetIds :
          DeleteBudget(caller, budgetId)
             /\ UNCHANGED <<accounts, audit, pending, now, updateLog, users, reportState>>

SpecBudget == Init /\ [][NextBudget]_vars

\* --------------------------------------------------------- user handler
\* src/src/user/index.js.  The key of the user table is the caller's identity;
\* every request works on the caller's own item.
MkUser(keys, name, email) == [keys |-> keys, Name |-> name, Email |-> email]

UserSchemaKeys == {"Name", "Email"}

\* Joi.string().email(): one "@" with something before it, and after it a
\* domain of at least two segments
IsEmail(e) ==
    \E i \in 2..Len(e) :
        /\ e[i] = "@"
        /\ \A j \in 1..Len(e) : e[j] = "@" => j = i
        /\ \E j \in (i + 2)..(Len(e) - 1) : e[j] = "."
        /\ e[i + 1] # "."

\* userSchema.validate(user) reports no error
userSchema(user) ==
    /\ user.keys = UserSchemaKeys
    /\ user.Name # ""
    /\ IsEmail(user.Email)

UserBodies ==
    { MkUser(UserSchemaKeys, "Ann", <<"a", "@", "x", ".", "y">>),
      MkUser(UserSchemaKeys, "Bob", <<"b", "@", "x", ".", "y">>),
      MkUser(UserSchemaKeys, "Ann", <<"a", ".", "x">>) }

UserStored(userId) == IF userId \in DOMAIN users THEN {users[userId]} ELSE {}

\* A createUser whose put carries no condition
CreateUserCondition_None(userId) == TRUE

\* createUser: ConditionExpression 'attribute_not_exists(UserID)' on the put
\* of the item keyed by the caller's identity
CreateUserCondition(userId) == userId \notin DOMAIN users

\* createUser: newUser
NewUser(userId, user, t) ==
    [UserID    |-> userId,
     attrs     |-> user.keys \cup {"UserID", "CreatedAt"},
     Name      |-> user.Name,
     Email     |-> user.Email,
     CreatedAt |-> t,
     UpdatedAt |-> 0]

\* updateUser: dynamodb.update with no ConditionExpression sets Name, Email
\* and UpdatedAt of the caller's item, and creates the item when there is none
UpdatedUser(userId, user, t) ==
    IF userId \in DOMAIN users
    THEN [users[userId] EXCEPT !.attrs = @ \cup {"Name", "Email", "UpdatedAt"},
                               !.Name = user.Name,
                               !.Email = user.Email,
                               !.UpdatedAt = t]
    ELSE [UserID    |-> userId,
          attrs     |-> {"UserID", "Name", "Email", "UpdatedAt"},
          Name      |-> user.Name,
          Email     |-> user.Email,
          CreatedAt |-> 0,
          UpdatedAt |-> t]

PutUser(item) ==
    [k \in DOMAIN users \cup {item.UserID} |-> IF k = item.UserID THEN item ELSE users[k]]

\* handler: getUserId throws, the catch answers 401
UserUnauthorized ==
    /\ last' = Event("user.unauthorized", "respond", NoUser, 0, NoBody, 401, {}, {})
    /\ UNCHANGED <<users, now>>

\* getUser
GetUser(userId) ==
    /\ last' = IF userId \in DOMAIN users
               THEN Event("user.get", "respond", userId, 0, NoBody, 200,
                          UserStored(userId), UserStored(userId))
               ELSE Event("user.get", "respond", userId, 0, NoBody, 404, {}, {})
    /\ UNCHANGED <<users, now>>

\* createUser
CreateUser(userId, user) ==
    IF ~userSchema(user)
    THEN /\ last' = Event("user.post", "respond", userId, 0, user, 400, {},
                          UserStored(userId))
         /\ UNCHANGED <<users, now>>
    ELSE \E t \in now..MaxTime :
            LET newUser == NewUser(userId, user, t)
            IN  /\ now' = t
                /\ IF CreateUserCondition(userId)
                   THEN /\ users' = PutUser(newUser)
                        /\ last' = Event("user.post", "respond", userId, 0, user, 201,
                                         {newUser}, UserStored(userId))
                   ELSE /\ users' = users
                        /\ last' = Event("user.post", "respond", userId, 0, user, 409,
                                         {}, UserStored(userId))

\* updateUser
UpdateUser(userId, user) ==
    IF ~userSchema(user)
    THEN /\ last' = Event("user.put", "respond", userId, 0, user, 400, {},
                          UserStored(userId))
         /\ UNCHANGED <<users, now>>
    ELSE \E t \in now..MaxTime :
            LET item == UpdatedUser(userId, user, t)
            IN  /\ now' = t
                /\ users' = PutUser(item)
                /\ last' = Event("user.put", "respond", userId, 0, user, 200, {item},
                                 UserStored(userId))

\* deleteUser
DeleteUser(userId) ==
    /\ users' = [k \in DOMAIN users \ {userId} |-> users[k]]
    /\ last' = Event("user.delete", "respond", userId, 0, NoBody, 200, {},
                     UserStored(userId))
    /\ UNCHANGED now

NextUser ==
    \/ UserUnauthorized
          /\ UNCHANGED <<accounts, audit, pending, updateLog, budgets, reportState>>
    \/ \E userId \in Users :
          GetUser(userId)
             /\ UNCHANGED <<accounts, audit, pending, updateLog, budgets, reportState>>
    \/ \E userId \in Users, user \in UserBodies :
          CreateUser(userId, user)
             /\ UNCHANGED <<accounts, audit, pending, updateLog, budgets, reportState>>
    \/ \E userId \in Users, user \in UserBodies :
          UpdateUser(userId, user)
             /\ UNCHANGED <<accounts, audit, pending, updateLog, budgets, reportState>>
    \/ \E userId \in Users :
          DeleteUser(userId)
             /\ UNCHANGED <<accounts, audit, pending, updateLog, budgets, reportState>>

SpecUser == Init /\ [][NextUser]_vars

\* ------------------------------------------------------------ analytics
\* src/unnamed/part_003.  Amounts are JavaScript numbers: IEEE 754 binary64.
\* A number is its sign, its exponent and its 53 significand bits (the
\* leading one first); its value is sign * significand * 2^(exp - 52).  The
\* amounts the model draws stay far from overflow and from the subnormals.
Precision == 53

Number(sign, exp, bits) == [sign |-> sign, exp |-> exp, bits |-> bits]

Zeros(n) == [i \in 1..n |-> 0]

\* 0, the initial value of both reduce calls
Zero == Number(0, 0, Zeros(Precision))

\* a natural number written in binary without its leading zeros
StripZeros(b) ==
    IF \A i \in 1..Len(b) : b[i] = 0 THEN << >>
    ELSE LET first == CHOOSE i \in 1..Len(b) :
                         b[i] = 1 /\ \A j \in 1..(i - 1) : b[j] = 0
         IN  SubSeq(b, first, Len(b))

\* the carry out of bit i when a and b are added: some bit at or after i
\* generates one and every bit between passes it on
CarryOut(a, b, i) ==
    \E j \in i..Len(a) :
        /\ a[j] + b[j] = 2
        /\ \A k \in i..(j - 1) : a[k] + b[k] = 1

\* a + b for two naturals of the same number of bits; the result has one more
AddBits(a, b) ==
    [i \in 1..(Len(a) + 1) |->
        IF i = 1 THEN (IF CarryOut(a, b, 1) THEN 1 ELSE 0)
        ELSE (a[i - 1] + b[i - 1] + (IF CarryOut(a, b, i) THEN 1 ELSE 0)) % 2]

\* the borrow out of bit i when b is taken from a
BorrowOut(a, b, i) ==
    \E j \in i..Len(a) :
        /\ a[j] < b[j]
        /\ \A k \in i..(j - 1) : a[k] = b[k]

\* a - b for two naturals of the same number of bits, a >= b
SubBits(a, b) ==
    [i \in 1..Len(a) |->
        (a[i] - b[i] - (IF BorrowOut(a, b, i + 1) THEN 1 ELSE 0)) % 2]

\* a > b for two naturals of the same number of bits
BitsGreater(a, b) ==
    \E i \in 1..Len(a) :
        /\ a[i] > b[i]
        /\ \A j \in 1..(i - 1) : a[j] = b[j]

\* The binary64 number nearest to sign * b * 2^scale, ties to even
RoundToNumber(sign, b, scale) ==
    LET n == StripZeros(b)
        L == Len(n)
    IN  IF L = 0 THEN Zero
        ELSE IF L <= Precision
        THEN Number(sign, scale + L - 1, n \o Zeros(Precision - L))
        ELSE LET kept == SubSeq(n, 1, Precision)
                 rest == SubSeq(n, Precision + 1, L)
                 half == <<1>> \o Zeros(L - Precision - 1)
                 up   == \/ BitsGreater(rest, half)
                         \/ rest = half /\ kept[Precision] = 1
                 next == AddBits(kept, Zeros(Precision - 1) \o <<1>>)
             IN  IF ~up THEN Number(sign, scale + L - 1, kept)
                 ELSE IF next[1] = 1
                 THEN Number(sign, scale + L, SubSeq(next, 1, Precision))
                 ELSE Number(sign, scale + L - 1, SubSeq(next, 2, Precision + 1))

\* x + y as the language computes it
NumberAdd(x, y) ==
    IF x.sign = 0 THEN y
    ELSE IF y.sign = 0 THEN x
    ELSE LET low  == IF x.exp < y.exp THEN x.exp ELSE y.exp
             high == IF x.exp < y.exp THEN y.exp ELSE x.exp
             wide == Precision + (high - low)
             xs   == x.bits \o Zeros(x.exp - low)
             ys   == y.bits \o Zeros(y.exp - low)
             xb   == Zeros(wide - Len(xs)) \o xs
             yb   == Zeros(wide - Len(ys)) \o ys
         IN  IF x.sign = y.sign
             THEN RoundToNumber(x.sign, AddBits(xb, yb), low - (Precision - 1))
             ELSE IF xb = yb THEN Zero
             ELSE IF BitsGreater(xb, yb)
             THEN RoundToNumber(x.sign, SubBits(xb, yb), low - (Precision - 1))
             ELSE RoundToNumber(y.sign, SubBits(yb, xb), low - (Precision - 1))

\* x - y
NumberSub(x, y) == NumberAdd(x, [y EXCEPT !.sign = -y.sign])

\* Math.abs(x)
MathAbs(x) == [x EXCEPT !.sign = IF x.sign = 0 THEN 0 ELSE 1]

\* the natural number the bits b[from..to] spell (at most 15 bits)
RECURSIVE BitsValue(_, _, _)
BitsValue(b, from, to) ==
    IF to < from THEN 0 ELSE 2 * BitsValue(b, from, to - 1) + b[to]

\* the natural number v written in n bits
ValueBits(v, n) == [i \in 1..n |-> (v \div 2^(n - i)) % 2]

\* Multiplication and division take a right operand whose significand has at
\* most 15 bits (every limit, every target and the constant 100 do): the
\* operand is ShortPart * 2^(exp - 14).  The left operand is any number; it
\* is worked on 13 bits at a time.
ShortPart(y) == BitsValue(y.bits, 1, 15)

\* b * d over the last k 13-bit pieces of b: the product's low bits and the
\* carry into the next piece
RECURSIVE MulShort(_, _, _)
MulShort(b, d, k) ==
    IF k = 0 THEN [p |-> << >>, c |-> 0]
    ELSE LET prev == MulShort(b, d, k - 1)
             n    == Len(b) \div 13
             cur  == BitsValue(b, 13 * (n - k) + 1, 13 * (n - k + 1)) * d + prev.c
         IN  [p |-> ValueBits(cur % 8192, 13) \o prev.p, c |-> cur \div 8192]

\* b \div d and b % d over the first k 13-bit pieces of b
RECURSIVE DivShort(_, _, _)
DivShort(b, d, k) ==
    IF k = 0 THEN [q |-> << >>, r |-> 0]
    ELSE LET prev == DivShort(b, d, k - 1)
             cur  == prev.r * 8192 + BitsValue(b, 13 * (k - 1) + 1, 13 * k)
         IN  [q |-> prev.q \o ValueBits(cur \div d, 13), r |-> cur % d]

\* x * y as the language computes it: the exact product, rounded once
NumberMul(x, y) ==
    IF x.sign = 0 \/ y.sign = 0 THEN Zero
    ELSE LET m == MulShort(Zeros(12) \o x.bits, ShortPart(y), 5)
         IN  RoundToNumber(x.sign * y.sign, ValueBits(m.c, 15) \o m.p,
                           (x.exp - (Precision - 1)) + (y.exp - 14))

\* x / y as the language computes it, y # 0: the quotient to 63 bits or more
\* and one more bit telling whether anything is left over, rounded once
NumberDiv(x, y) ==
    IF x.sign = 0 THEN Zero
    ELSE LET d == DivShort(x.bits \o Zeros(25), ShortPart(y), 6)
         IN  RoundToNumber(x.sign * y.sign,
                           d.q \o <<IF d.r = 0 THEN 0 ELSE 1>>,
                           (x.exp - (Precision - 1)) - 25 - (y.exp - 14) - 1)

\* the number literal n, 0 < n < 2^15
Literal(n) == RoundToNumber(1, ValueBits(n, 15), 0)

\* the number literal -n
Minus(x) == [x EXCEPT !.sign = -x.sign]

\* 0.1 = 0x3fb999999999999a
Tenth ==
    Number(1, -4,
        <<1, 1, 0, 0, 1, 1, 0, 0, 1, 1, 0, 0, 1, 1, 0, 0, 1, 1, 0, 0, 1, 1, 0, 0, 1, 1, 0,
          0, 1, 1, 0, 0, 1, 1, 0, 0, 1, 1, 0, 0, 1, 1, 0, 0, 1, 1, 0, 0, 1, 1, 0, 1, 0>>)

\* 0.2 = 0x3fc999999999999a
Fifth ==
    Number(1, -3,
        <<1, 1, 0, 0, 1, 1, 0, 0, 1, 1, 0, 0, 1, 1, 0, 0, 1, 1, 0, 0, 1, 1, 0, 0, 1, 1, 0,
          0, 1, 1, 0, 0, 1, 1, 0, 0, 1, 1, 0, 0, 1, 1, 0, 0, 1, 1, 0, 0, 1, 1, 0, 1, 0>>)

\* 0.3 = 0x3fd3333333333333
ThreeTenths ==
    Number(1, -2,
        <<1, 0, 0, 1, 1, 0, 0, 1, 1, 0, 0, 1, 1, 0, 0, 1, 1, 0, 0, 1, 1, 0, 0, 1, 1, 0, 0,
          1, 1, 0, 0, 1, 1, 0, 0, 1, 1, 0, 0, 1, 1, 0, 0, 1, 1, 0, 0, 1, 1, 0, 0, 1, 1>>)

\* The amounts of the transactions the model draws
Amounts ==
    { Tenth, Fifth, ThreeTenths,
      [Tenth EXCEPT !.sign = -1], [Fifth EXCEPT !.sign = -1],
      [ThreeTenths EXCEPT !.sign = -1], Zero }

\* An ISO date "YYYY-MM-DD".  new Date(t.Date) is that day at midnight UTC,
\* and the function's clock is UTC: getFullYear() and getMonth() + 1 read
\* the year and the month back.
Date(year, month, day) == [year |-> year, month |-> month, day |-> day]

\* an item of the transaction table
Transaction(userId, date, amount, category) ==
    [UserID |-> userId, Date |-> date, Amount |-> amount, Category |-> category,
     Description |-> ""]

\* an item of the budget table
Budget(userId, category, amount) ==
    [UserID |-> userId, Category |-> category, Amount |-> amount]

\* an item of the goal table
Goal(userId, goalName, targetAmount, currentAmount) ==
    [UserID |-> userId, GoalName |-> goalName, TargetAmount |-> targetAmount,
     CurrentAmount |-> currentAmount]

\* getAllItems(tableName, userId): scan with FilterExpression 'UserID = :userId'
getAllItems(table, userId) ==
    LET Owned(item) == item.UserID = userId
    IN  SelectSeq(table, Owned)

\* t.Amount > 0, t.Amount < 0
IsIncome(t) == t.Amount.sign = 1
IsExpense(t) == t.Amount.sign = -1

\* ts.reduce((sum, t) => sum + t.Amount, 0) over the first n elements
RECURSIVE SumAmounts(_, _)
SumAmounts(ts, n) ==
    IF n = 0 THEN Zero
    ELSE NumberAdd(SumAmounts(ts, n - 1), ts[n].Amount)

\* ts.reduce((sum, t) => sum + Math.abs(t.Amount), 0) over the first n elements
RECURSIVE SumAbsAmounts(_, _)
SumAbsAmounts(ts, n) ==
    IF n = 0 THEN Zero
    ELSE NumberAdd(SumAbsAmounts(ts, n - 1), MathAbs(ts[n].Amount))

analyzeIncomeVsExpenses(ts) ==
    LET incomes  == SelectSeq(ts, IsIncome)
        outgoes  == SelectSeq(ts, IsExpense)
        income   == SumAmounts(incomes, Len(incomes))
        expenses == SumAbsAmounts(outgoes, Len(outgoes))
    IN  [income |-> income, expenses |-> expenses,
         netIncome |-> NumberSub(income, expenses)]

\* A filter that takes the transactions of the category whatever their sign
Spends_AnySign(t, budget) == t.Category = budget.Category

\* analyzeBudgetProgress: t => t.Category === budget.Category && t.Amount < 0
Spends(t, budget) == t.Category = budget.Category /\ IsExpense(t)

\* A remaining amount that stops at 0
Remaining_Clamped(limit, spent) ==
    IF NumberSub(limit, spent).sign = -1 THEN Zero ELSE NumberSub(limit, spent)

\* analyzeBudgetProgress: remaining: budget.Amount - spent
Remaining(limit, spent) == NumberSub(limit, spent)

\* (part / whole) * 100
Percent(part, whole) == NumberMul(NumberDiv(part, whole), Literal(100))

\* analyzeBudgetProgress: budgets.map(...)
analyzeBudgetProgress(ts, bs) ==
    [i \in 1..Len(bs) |->
        LET budget == bs[i]
            Matches(t) == Spends(t, budget)
            matching == SelectSeq(ts, Matches)
            spent == SumAbsAmounts(matching, Len(matching))
        IN  [category    |-> budget.Category,
             limit       |-> budget.Amount,
             spent       |-> spent,
             remaining   |-> Remaining(budget.Amount, spent),
             percentUsed |-> Percent(spent, budget.Amount)]]

\* A progress that multiplies by 100 before it divides
Progress_MultipliesFirst(current, target) ==
    NumberDiv(NumberMul(current, Literal(100)), target)

\* analyzeGoalProgress: progress: (goal.CurrentAmount / goal.TargetAmount) * 100
Progress(current, target) == Percent(current, target)

\* analyzeGoalProgress: goals.map(...)
analyzeGoalProgress(gs) ==
    [i \in 1..Len(gs) |->
        [name      |-> gs[i].GoalName,
         target    |-> gs[i].TargetAmount,
         current   |-> gs[i].CurrentAmount,
         remaining |-> NumberSub(gs[i].TargetAmount, gs[i].CurrentAmount),
         progress  |-> Progress(gs[i].CurrentAmount, gs[i].TargetAmount)]]

\* The places where a key is met for the first time, in order: the order in
\* which reduce adds the keys to its object, and Object.entries lists them
FirstPlaces(keys) ==
    LET firsts == {i \in 1..Len(keys) : \A j \in 1..(i - 1) : keys[j] # keys[i]}
    IN  [k \in 1..Cardinality(firsts) |->
            CHOOSE i \in firsts : Cardinality({j \in firsts : j < i}) = k - 1]

\* entries.sort(compare), before holding the pairs of places <<i, j>> whose
\* entries compare negative: the sort is stable, so an entry comes after the
\* entries that compare before it and after the earlier ones that compare equal
SortBy(entries, before) ==
    LET n == Len(entries)
        place == [i \in 1..n |->
                    1 + Cardinality({j \in 1..n :
                                       \/ <<j, i>> \in before
                                       \/ j < i /\ <<i, j>> \notin before})]
    IN  [k \in 1..n |-> entries[CHOOSE i \in 1..n : place[i] = k]]

\* analyzeTopCategories: the totals object, as Object.entries lists it.  The
\* model's category names are none of the names an empty object inherits.
categoryTotals(ts) ==
    LET categories == [i \in 1..Len(ts) |-> ts[i].Category]
        places == FirstPlaces(categories)
    IN  [k \in 1..Len(places) |->
            LET InCategory(t) == t.Category = categories[places[k]]
                those == SelectSeq(ts, InCategory)
            IN  [category |-> categories[places[k]],
                 total    |-> SumAbsAmounts(those, Len(those))]]

\* x < y, which is when x - y is negative
NumberLess(x, y) ==
    IF x.sign # y.sign THEN x.sign < y.sign
    ELSE IF x.sign = 0 THEN FALSE
    ELSE LET small == IF x.sign = 1 THEN x ELSE y
             large == IF x.sign = 1 THEN y ELSE x
         IN  \/ small.exp < large.exp
             \/ small.exp = large.exp /\ BitsGreater(large.bits, small.bits)

\* analyzeTopCategories: (a, b) => b[1] - a[1] is negative
LargerTotal(a, b) == NumberLess(b.total, a.total)

\* analyzeTopCategories: slice(0, 5)
TopCount == 5

\* A slice that keeps every entry
Slice_All(entries) == entries

\* analyzeTopCategories: .slice(0, 5)
Slice(entries) ==
    SubSeq(entries, 1, IF Len(entries) < TopCount THEN Len(entries) ELSE TopCount)

analyzeTopCategories(ts) ==
    LET entries == categoryTotals(ts)
        places == 1..Len(entries)
    IN  Slice(SortBy(entries, {p \in places \X places :
                                  LargerTotal(entries[p[1]], entries[p[2]])}))

\* the decimal digits of a natural number, as characters
DigitChars == <<"0", "1", "2", "3", "4", "5", "6", "7", "8", "9">>

\* String(n)
RECURSIVE String(_)
String(n) ==
    IF n < 10 THEN <<DigitChars[n + 1]>>
    ELSE Append(String(n \div 10), DigitChars[(n % 10) + 1])

\* str.padStart(2, '0')
padStart(str) == IF Len(str) < 2 THEN <<"0">> \o str ELSE str

\* analyzeMonthlyTrend: `${date.getFullYear()}-${String(date.getMonth() + 1).padStart(2, '0')}`
monthYear(date) == String(date.year) \o <<"-">> \o padStart(String(date.month))

\* the place of a character of a month key in the collation order: the hyphen
\* sorts before the digits
CharPlace(c) ==
    IF c = "-" THEN 0 ELSE CHOOSE d \in 1..10 : DigitChars[d] = c

\* a.localeCompare(b) < 0 for two month keys
localeCompareBefore(a, b) ==
    \/ \E i \in 1..Len(a) :
          /\ i <= Len(b)
          /\ CharPlace(a[i]) < CharPlace(b[i])
          /\ \A j \in 1..(i - 1) : a[j] = b[j]
    \/ /\ Len(a) < Len(b)
       /\ \A j \in 1..Len(a) : a[j] = b[j]

\* analyzeMonthlyTrend: the totals object, as Object.entries lists it
monthlyTotals(ts) ==
    LET months == [i \in 1..Len(ts) |-> monthYear(ts[i].Date)]
        places == FirstPlaces(months)
    IN  [k \in 1..Len(places) |->
            LET Earned(t) == monthYear(t.Date) = months[places[k]] /\ IsIncome(t)
                Paid(t)   == monthYear(t.Date) = months[places[k]] /\ ~IsIncome(t)
                earned == SelectSeq(ts, Earned)
                paid   == SelectSeq(ts, Paid)
            IN  [month    |-> months[places[k]],
                 income   |-> SumAmounts(earned, Len(earned)),
                 expenses |-> SumAbsAmounts(paid, Len(paid))]]

\* analyzeMonthlyTrend: (a, b) => a[0].localeCompare(b[0]) is negative
EarlierMonth(a, b) == localeCompareBefore(a.month, b.month)

\* A monthly trend left in the order of the totals object
SortByMonth_Unsorted(entries) == entries

\* analyzeMonthlyTrend: .sort((a, b) => a[0].localeCompare(b[0]))
SortByMonth(entries) ==
    LET places == 1..Len(entries)
    IN  SortBy(entries, {p \in places \X places :
                            EarlierMonth(entries[p[1]], entries[p[2]])})

analyzeMonthlyTrend(ts) == SortByMonth(monthlyTotals(ts))

\* the body of the 200 response of GET /analytics/summary
summary(ts, bs, gs) ==
    [incomeVsExpenses |-> analyzeIncomeVsExpenses(ts),
     budgetProgress   |-> analyzeBudgetProgress(ts, bs),
     goalProgress     |-> analyzeGoalProgress(gs),
     topCategories    |-> analyzeTopCategories(ts),
     monthlyTrend     |-> analyzeMonthlyTrend(ts)]

\* handler, GET /analytics/summary: the three scans and the response.  The
\* tables do not change under the specifications that take this step.
Summary(userId) ==
    /\ last' = Event("analytics.summary", "respond", userId, 0, NoBody, 200,
                     {summary(getAllItems(transactions, userId),
                              getAllItems(budgetItems, userId),
                              getAllItems(goals, userId))},
                     {})
    /\ UNCHANGED <<accounts, audit, pending, now, updateLog, budgets, users,
                   reportState>>

\* the state before any request, the report tables left open
InitReport ==
    /\ accounts = << >>
    /\ audit = << >>
    /\ pending = {}
    /\ now = 0
    /\ last = Event("none", "respond", "u1", 0, NoBody, 0, {}, {})
    /\ updateLog = {}
    /\ budgets = << >>
    /\ users = << >>
    /\ bucket = << >>
    /\ exporting = {}

\* the sequences of at most n elements of S
SeqsUpTo(S, n) == UNION {[1..k -> S] : k \in 0..n}

\* Transactions of one user in one category, over two months
TransactionLists ==
    SeqsUpTo({Transaction("u1", date, amount, "Food") :
                 date \in {Date(2024, 1, 15), Date(2024, 2, 1)},
                 amount \in Amounts},
             MaxTransactions)

InitAnalytics ==
    /\ InitReport
    /\ transactions \in TransactionLists
    /\ budgetItems = << >>
    /\ goals = << >>

NextAnalytics == \E userId \in Users : Summary(userId)

SpecAnalytics == InitAnalytics /\ [][NextAnalytics]_vars

\* Income and spending of one user in two categories.  500, -500 and -200
\* against a limit of 600 leave 600, 100, -100 and more.
SpendingLists ==
    SeqsUpTo({Transaction("u1", Date(2024, 1, 15), amount, category) :
                 amount \in {Literal(500), Minus(Literal(500)), Minus(Literal(200))},
                 category \in {"Food", "Rent"}},
             MaxTransactions)

\* The budget tables summarised: one budget, two in either order, and one
\* next to a budget of another user
BudgetLists ==
    { <<Budget("u1", "Food", Literal(600))>>,
      <<Budget("u1", "Food", Literal(600)), Budget("u1", "Rent", Literal(100))>>,
      <<Budget("u1", "Rent", Literal(100)), Budget("u1", "Food", Literal(600))>>,
      <<Budget("u2", "Food", Literal(100)), Budget("u1", "Food", Literal(600))>> }

InitBudgetProgress ==
    /\ InitReport
    /\ transactions \in SpendingLists
    /\ budgetItems \in BudgetLists
    /\ goals = << >>

SpecBudgetProgress == InitBudgetProgress /\ [][NextAnalytics]_vars

\* Goals of one user: targets 1000, 100 and 3 reached to 300, 7, 1 or not at all
GoalLists ==
    SeqsUpTo({Goal("u1", "Vacation", targetAmount, currentAmount) :
                 targetAmount \in {Literal(1000), Literal(100), Literal(3)},
                 currentAmount \in {Literal(300), Literal(7), Literal(1), Zero}},
             MaxGoals)

InitGoalProgress ==
    /\ InitReport
    /\ transactions = << >>
    /\ budgetItems = << >>
    /\ goals \in GoalLists

SpecGoalProgress == InitGoalProgress /\ [][NextAnalytics]_vars

\* the categories the transactions of the next family fall in, one each
CategoryNames ==
    <<"Food", "Rent", "Fun", "Travel", "Health", "Gifts", "Pets", "Books">>

\* Transactions of one user in up to MaxCategories categories: one of 0.1 or
\* -0.2 in each, then none or one more in the first or the second
CategoryLists ==
    UNION { { [i \in 1..n |->
                  Transaction("u1", Date(2024, 1, 15), amount[i], CategoryNames[i])]
              \o more :
                 amount \in [1..n -> {Tenth, Minus(Fifth)}],
                 more \in { << >>,
                            <<Transaction("u1", Date(2024, 1, 15), ThreeTenths, "Food")>>,
                            <<Transaction("u1", Date(2024, 1, 15), Minus(Tenth), "Rent")>> } } :
            n \in 0..MaxCategories }

InitTopCategories ==
    /\ InitReport
    /\ transactions \in CategoryLists
    /\ budgetItems = << >>
    /\ goals = << >>

SpecTopCategories == InitTopCategories /\ [][NextAnalytics]_vars

\* Transactions of one user on three days of three months: the last of
\* 2023, and a one-digit and a two-digit month of 2024
MonthLists ==
    SeqsUpTo({Transaction("u1", date, amount, "Food") :
                 date \in {Date(2023, 12, 31), Date(2024, 2, 1), Date(2024, 10, 5)},
                 amount \in {Tenth, Minus(Fifth)}},
             MaxTransactions)

InitMonthlyTrend ==
    /\ InitReport
    /\ transactions \in MonthLists
    /\ budgetItems = << >>
    /\ goals = << >>

SpecMonthlyTrend == InitMonthlyTrend /\ [][NextAnalytics]_vars

\* --------------------------------------------------------------- export
\* src/unnamed/part_004, the export handler.  The scan and the upload are two
\* steps; the invocation sits in `exporting` between them.

\* getAllTransactions(userId): scan with FilterExpression 'UserID = :userId'
getAllTransactions(userId) == getAllItems(transactions, userId)

\* convertToCSV: the header row, then one row of four fields per transaction
convertToCSV(ts) ==
    << <<"Date", "Amount", "Category", "Description">> >>
       \o [i \in 1..Len(ts) |->
              <<ts[i].Date, ts[i].Amount, ts[i].Category, ts[i].Description>>]

\* `export_${userId}_${new Date().toISOString()}.csv`
Filename(userId, t) == <<"export_", userId, "_", t, ".csv">>

\* An upload that reports success and stores nothing
PutObject_Dropped(objects, key, body) == objects

\* s3.putObject: the object under the key, in place of any other under it
PutObject(objects, key, body) ==
    [k \in DOMAIN objects \cup {key} |-> IF k = key THEN body ELSE objects[k]]

\* handler: a request with no claims.sub
ExportUnauthorized ==
    /\ last' = Event("export", "respond", NoUser, 0, NoBody, 401, {}, {})
    /\ UNCHANGED <<now, bucket, exporting>>

\* handler, up to the upload: the scan, the 404 of an empty scan, the CSV and
\* the filename
Export(userId) ==
    LET found == getAllTransactions(userId) IN
    IF Len(found) = 0
    THEN /\ last' = Event("export", "respond", userId, 0, NoBody, 404,
                          {[message |-> "No transactions found"]}, {})
         /\ UNCHANGED <<now, bucket, exporting>>
    ELSE /\ Cardinality(exporting) + Cardinality(DOMAIN bucket) < MaxExports
         /\ \E t \in now..MaxTime :
               /\ now' = t
               /\ exporting' = exporting \cup
                     {[caller |-> userId, filename |-> Filename(userId, t),
                       csv |-> convertToCSV(found)]}
               /\ last' = Event("export", "scan", userId, 0, NoBody, 0, {}, {})
               /\ UNCHANGED bucket

\* the rest of the handler: uploadToS3, then the 200 response
UploadToS3(r) ==
    /\ bucket' = PutObject(bucket, r.filename, r.csv)
    /\ exporting' = exporting \ {r}
    /\ last' = Event("export", "respond", r.caller, 0, NoBody, 200,
                     {[message |-> "Export successful", filename |-> r.filename]},
                     {})
    /\ UNCHANGED now

\* the rest of the handler when s3.putObject rejects: the catch block's 500
UploadFails(r) ==
    /\ exporting' = exporting \ {r}
    /\ last' = Event("export", "respond", r.caller, 0, NoBody, 500,
                     {[message |-> "Internal server error"]}, {})
    /\ UNCHANGED <<now, bucket>>

\* The transaction tables exported from: transactions of either user
ExportTables ==
    SeqsUpTo({Transaction(userId, Date(2024, 1, 15), Tenth, "Food") :
                 userId \in Users},
             MaxTransactions)

InitExport ==
    /\ InitReport
    /\ transactions \in ExportTables
    /\ budgetItems = << >>
    /\ goals = << >>

NextExport ==
    \/ ExportUnauthorized
          /\ UNCHANGED <<accounts, audit, pending, updateLog, budgets, users,
                         transactions, budgetItems, goals>>
    \/ \E userId \in Users :
          Export(userId)
             /\ UNCHANGED <<accounts, audit, pending, updateLog, budgets, users,
                            transactions, budgetItems, goals>>
    \/ \E r \in exporting :
          UploadToS3(r)
             /\ UNCHANGED <<accounts, audit, pending, updateLog, budgets, users,
                            transactions, budgetItems, goals>>
    \/ \E r \in exporting :
          UploadFails(r)
             /\ UNCHANGED <<accounts, audit, pending, updateLog, budgets, users,
                            transactions, budgetItems, goals>>

SpecExport == InitExport /\ [][NextExport]_vars

\* ---------------------------------------------------------------- claims
Only(S) == CHOOSE x \in S : TRUE

\* name, balance and type pass the schema (whatever else the body holds)
ValidFields(body) == accountSchema([body EXCEPT !.keys = @ \ {"Version"}])

\* the store call of the step found an active item owned by the caller
OwnedActive(e) ==
    /\ e.pre # {}
    /\ Only(e.pre).UserID = e.caller
    /\ Only(e.pre).IsActive

SuppliesVersion(e) == "Version" \in e.body.keys

\* C3: an Update by the owner of an active account, with valid name, balance
\* and type and an expectedVersion equal to the stored version, is answered
\* 200 with the record at the stored version + 1.
C3_UpdateAtStoredVersionReturns200 ==
    ( /\ last.op = "update"
      /\ last.step = "respond"
      /\ OwnedActive(last)
      /\ ValidFields(last.body)
      /\ SuppliesVersion(last)
      /\ last.body.Version = Only(last.pre).Version )
    => ( /\ last.status = 200
         /\ last.items # {}
         /\ Only(last.items).Version = Only(last.pre).Version + 1 )

\* C4: the stored version of an account changes only in the step that applies
\* an Update to it, and then by exactly 1; it never decreases, and no other
\* step (Create of another record, SoftDelete, Get, List, the audit write)
\* changes it.
C4_VersionChangesOnlyByUpdate ==
    [][\A id \in DOMAIN accounts :
          id \in DOMAIN accounts' =>
             /\ accounts'[id].Version >= accounts[id].Version
             /\ accounts'[id].Version # accounts[id].Version =>
                   /\ last'.op = "update"
                   /\ last'.step = "commit"
                   /\ last'.id = id
                   /\ accounts'[id].Version = accounts[id].Version + 1]_vars

\* C4 witness: a SoftDelete has been applied and the version is the one it found
C4_Witness ==
    /\ last.op = "delete"
    /\ last.step = "commit"
    /\ accounts[last.id].Version = Only(last.pre).Version
    /\ accounts[last.id].UpdatedAt > Only(last.pre).UpdatedAt

\* C5 as claimed: every Update or SoftDelete applied to a record finds caller =
\* stored owner, active = true, and the version the request supplies equal to
\* the stored version.
C5_EveryMutationChecksVersion ==
    (last.step = "commit" /\ last.op \in {"update", "delete"}) =>
        /\ OwnedActive(last)
        /\ SuppliesVersion(last)
        /\ last.body.Version = Only(last.pre).Version

\* C5 as amended: every Update or SoftDelete applied to a record finds caller =
\* stored owner and active = true; an Update also finds the version it
\* supplies equal to the stored version, a SoftDelete checks no version.
C5_MutationGuards ==
    (last.step = "commit" /\ last.op \in {"update", "delete"}) =>
        /\ OwnedActive(last)
        /\ last.op = "update" =>
              (SuppliesVersion(last) /\ last.body.Version = Only(last.pre).Version)

\* C5 witness: a SoftDelete applied although the request carries another
\* version than the stored one
C5_Witness ==
    /\ last.step = "commit"
    /\ last.op = "delete"
    /\ SuppliesVersion(last)
    /\ last.body.Version # Only(last.pre).Version

C8_NoRecordRemoved ==
    [][DOMAIN accounts \subseteq DOMAIN accounts']_vars

\* C8 witness: a record that was soft-deleted is still in the table
C8_Witness ==
    /\ last.op = "delete"
    /\ last.step = "respond"
    /\ last.status = 200
    /\ last.id \in DOMAIN accounts
    /\ accounts[last.id].IsActive = FALSE

C2_RacingUpdatesLoseWith409 ==
    \A e1 \in updateLog : \A e2 \in updateLog :
        ( /\ e1.n # e2.n
          /\ e1.id = e2.id
          /\ ValidFields(e1.body) /\ ValidFields(e2.body)
          /\ SuppliesVersion(e1) /\ SuppliesVersion(e2)
          /\ e1.body.Version = e2.body.Version )
        => /\ ~(e1.applied /\ e2.applied)
           /\ ~e1.applied => e1.status = 409
           /\ ~e2.applied => e2.status = 409

\* C10 as claimed: every record a budget read returns to a caller is a record
\* that caller owns.
C10_BudgetReadsReturnOwnRecords ==
    (last.op \in {"budget.list", "budget.get"} /\ last.caller \in Users) =>
        \A item \in last.items :
            "UserID" \in item.attrs => item.UserID = last.caller

\* C11 as claimed: every request that carries no caller identity is answered
\* 401 (and has then read and written no table).
C11_NoIdentityIs401 ==
    (last.caller = NoUser /\ last.op # "none") => last.status = 401

\* a body the account schema must refuse: a required key missing, an empty
\* name, or a Type outside the enum
BreaksSchema(body) ==
    \/ ~(AccountSchemaKeys \subseteq body.keys)
    \/ Len(body.AccountName) = 0
    \/ body.Type \notin AccountTypes

C13_AuditAppendOnly ==
    [][/\ Len(audit') >= Len(audit)
       /\ \A i \in 1..Len(audit) : audit'[i] = audit[i]]_vars

\* C13 witness: a second event has been written and the first is still there
C13_Witness ==
    /\ Len(audit) >= 2
    /\ audit[1].AuditID = 1
    /\ audit[2].AuditID = 2
    /\ audit[1].Action = "CREATE_ACCOUNT"

\* the tag the audit event of an account operation carries
TagOf(op) ==
    IF op = "create" THEN "CREATE_ACCOUNT"
    ELSE IF op = "update" THEN "UPDATE_ACCOUNT" ELSE "DELETE_ACCOUNT"

\* C14: the step that answers an account Create, Update or SoftDelete with
\* 201/200 appends exactly one audit event, tagged for the operation, with
\* acting user = caller, for an account whose mutation is already in the table
\* (an UPDATE_ACCOUNT event has newVersion = oldVersion + 1); every other
\* step, among them every answer 400, 401, 404 or 409 and the step that
\* commits the mutation, appends none.
C14_OneAuditEventPerSuccess ==
    [][IF /\ last'.step = "respond"
          /\ last'.op \in {"create", "update", "delete"}
          /\ last'.status \in {200, 201}
       THEN /\ Len(audit') = Len(audit) + 1
            /\ SubSeq(audit', 1, Len(audit)) = audit
            /\ LET ev == audit'[Len(audit')]
               IN  /\ ev.Action = TagOf(last'.op)
                   /\ ev.UserID = last'.caller
                   /\ ev.accountId = last'.id
                   /\ last'.op = "update" => ev.newVersion = ev.oldVersion + 1
            /\ accounts' = accounts
            /\ last'.id \in DOMAIN accounts
            /\ last'.op = "delete" => ~accounts[last'.id].IsActive
       ELSE audit' = audit]_vars

\* C14 witness: a SoftDelete has been answered 200 and the last audit event
\* is its DELETE_ACCOUNT event; an earlier request was answered without one
C14_Witness ==
    /\ last.op = "delete"
    /\ last.step = "respond"
    /\ last.status = 200
    /\ Len(audit) = 2
    /\ audit[2].Action = "DELETE_ACCOUNT"
    /\ audit[2].UserID = last.caller
    /\ audit[1].Action = "CREATE_ACCOUNT"

\* C15: when the audit write of an account Create, Update or SoftDelete fails
\* after the account write has committed, the request is answered 500 in a
\* step that leaves the account table as it is: the created record is still
\* there, the soft-deleted record is still inactive, the updated record still
\* has the version the update gave it.
C15_AuditFailureKeepsMutation ==
    [][\A r \in pending :
          (r \notin pending' /\ audit' = audit) =>
             /\ last'.status = 500
             /\ accounts' = accounts
             /\ r.id \in DOMAIN accounts'
             /\ r.op = "delete" => ~accounts'[r.id].IsActive
             /\ r.op = "update" => accounts'[r.id].Version >= r.item.Version]_vars

\* C15 witness: a SoftDelete answered 500 with no audit event, the record
\* inactive
C15_Witness ==
    /\ last.op = "delete"
    /\ last.step = "respond"
    /\ last.status = 500
    /\ last.pre # {}
    /\ Only(last.pre).IsActive
    /\ ~accounts[last.id].IsActive
    /\ \A i \in 1..Len(audit) : audit[i].Action # "DELETE_ACCOUNT"

\* C16 as claimed: an account Update with valid name, balance and type and an
\* expectedVersion, whose target record is absent, inactive, owned by another
\* identity or at another version, is answered 409.
C16_FailedConditionIs409 ==
    ( /\ last.op = "update"
      /\ last.step = "respond"
      /\ ValidFields(last.body)
      /\ SuppliesVersion(last)
      /\ \/ ~OwnedActive(last)
         \/ Only(last.pre).Version # last.body.Version )
    => last.status = 409

\* C17 as claimed: a budget update (with a valid payload) or delete issued by
\* a caller who does not own the record, or for an identifier with no record,
\* is answered 404 and leaves the record, if any, as it was.
C17_ForeignBudgetWriteIs404 ==
    ( /\ last.op \in {"budget.put", "budget.delete"}
      /\ last.caller \in Users
      /\ last.op = "budget.put" => budgetSchema(last.body)
      /\ \/ last.pre = {}
         \/ Only(last.pre).UserID # last.caller )
    => /\ last.status = 404
       /\ BudgetStored(last.id) = last.pre

\* C18: a user Create with a valid payload is answered 201, and stores the
\* record, when the caller has no user record at the moment of the put, and is
\* answered 409, leaving the stored record as it is, when the caller has one;
\* the put decides atomically, so of two racing Creates for one identity the
\* first to reach the table gets 201 and the other 409.
C18_UserCreateIfNotExists ==
    (last.op = "user.post" /\ userSchema(last.body)) =>
        IF last.pre = {}
        THEN /\ last.status = 201
             /\ UserStored(last.caller) = last.items
             /\ last.items # {}
             /\ Only(last.items).UserID = last.caller
        ELSE /\ last.status = 409
             /\ UserStored(last.caller) = last.pre

\* C18 witness: a Create answered 409 for a caller whose record was created
\* earlier with another name, at an earlier time, and is still as it was
C18_Witness ==
    /\ last.op = "user.post"
    /\ last.status = 409
    /\ last.pre # {}
    /\ "CreatedAt" \in Only(last.pre).attrs
    /\ Only(last.pre).Name # last.body.Name
    /\ Only(last.pre).CreatedAt < now
    /\ users[last.caller] = Only(last.pre)

\* C19 as claimed: the record a budget create stores has its owner identifier
\* equal to the caller identity of the creating request, whatever owner the
\* request body names.
C19_CreatedBudgetOwnedByCaller ==
    (last.op = "budget.post" /\ last.status = 201 /\ last.caller \in Users) =>
        \A item \in last.items :
            /\ "UserID" \in item.attrs
            /\ item.UserID = last.caller

\* the orders a collection of transactions can come in
Reorderings(ts) ==
    {[i \in 1..Len(ts) |-> ts[f[i]]] : f \in Permutations(1..Len(ts))}

Answer == Only(last.items)

\* what the three scans of the last summary returned
OwnTransactions == getAllItems(transactions, last.caller)
OwnBudgets == getAllItems(budgetItems, last.caller)
OwnGoals == getAllItems(goals, last.caller)

\* the sum of |amount| over the transactions ts, in their order
AbsTotal(ts) == SumAbsAmounts(ts, Len(ts))

C23_GoalProgressPerGoal ==
    (last.op = "analytics.summary") =>
        LET out == Answer.goalProgress
        IN  /\ Len(out) = Len(OwnGoals)
            /\ \A i \in 1..Len(out) :
                  LET target == OwnGoals[i].TargetAmount
                      current == OwnGoals[i].CurrentAmount
                  IN  /\ out[i].name = OwnGoals[i].GoalName
                      /\ out[i].target = target
                      /\ out[i].current = current
                      /\ out[i].remaining = NumberSub(target, current)
                      /\ out[i].progress =
                            NumberMul(NumberDiv(current, target), Literal(100))
                      /\ (target = Literal(1000) /\ current = Literal(300)) =>
                            /\ out[i].remaining = Literal(700)
                            /\ out[i].progress = Literal(30)

\* C23 witness: two goals summarised, the first with target 1000 and current
\* 300, the second another goal that is under way
C23_Witness ==
    /\ last.op = "analytics.summary"
    /\ Len(Answer.goalProgress) = 2
    /\ Answer.goalProgress[1].target = Literal(1000)
    /\ Answer.goalProgress[1].progress = Literal(30)
    /\ Answer.goalProgress[1].remaining = Literal(700)
    /\ Answer.goalProgress[2].target = Literal(100)
    /\ Answer.goalProgress[2].current = Literal(7)

\* the total |amount| of the caller's transactions in a category
CategoryTotal(category) ==
    LET Counted(t) == t.Category = category
    IN  AbsTotal(SelectSeq(OwnTransactions, Counted))

\* the categories of the caller's transactions
OwnCategories == {OwnTransactions[i].Category : i \in 1..Len(OwnTransactions)}

\* the place where a category is first met among the caller's transactions
FirstMet(category) ==
    CHOOSE i \in 1..Len(OwnTransactions) :
        /\ OwnTransactions[i].Category = category
        /\ \A j \in 1..(i - 1) : OwnTransactions[j].Category # category

MonthKeys(trend) == [i \in 1..Len(trend) |-> trend[i].month]

\* C25: the monthly trend of a summary has exactly one entry for each
\* "YYYY-MM" month among the dates of the caller's transactions, its keys are
\* strictly increasing in lexicographic order, and they are the same keys in
\* the same order for every order of the transactions.
C25_MonthlyTrendKeys ==
    (last.op = "analytics.summary") =>
        LET keys == MonthKeys(Answer.monthlyTrend)
            months == {monthYear(OwnTransactions[i].Date) :
                         i \in 1..Len(OwnTransactions)}
        IN  /\ {keys[i] : i \in 1..Len(keys)} = months
            /\ Len(keys) = Cardinality(months)
            /\ \A i \in 1..(Len(keys) - 1) : localeCompareBefore(keys[i], keys[i + 1])
            /\ \A ts \in Reorderings(OwnTransactions) :
                  MonthKeys(analyzeMonthlyTrend(ts)) = keys

\* C25 witness: three transactions, the first and the last of October 2024
\* and the one between of December 2023, summarised to the two months in
\* calendar order
C25_Witness ==
    /\ last.op = "analytics.summary"
    /\ Len(OwnTransactions) = 3
    /\ OwnTransactions[1].Date = Date(2024, 10, 5)
    /\ OwnTransactions[2].Date = Date(2023, 12, 31)
    /\ OwnTransactions[3].Date = Date(2024, 10, 5)
    /\ MonthKeys(Answer.monthlyTrend) =
          << <<"2", "0", "2", "3", "-", "1", "2">>,
             <<"2", "0", "2", "4", "-", "1", "0">> >>

\* the sum of the first n numbers of xs
RECURSIVE Total(_, _)
Total(xs, n) == IF n = 0 THEN Zero ELSE NumberAdd(Total(xs, n - 1), xs[n])

\* C30 as claimed: in a summary the incomes of the monthly trend entries add
\* up to the income of incomeVsExpenses, and the expenses of the entries to
\* its expenses.
C30_MonthlyTrendAddsUp ==
    (last.op = "analytics.summary") =>
        LET trend == Answer.monthlyTrend
            incomes == [i \in 1..Len(trend) |-> trend[i].income]
            outgoes == [i \in 1..Len(trend) |-> trend[i].expenses]
        IN  /\ Total(incomes, Len(trend)) = Answer.incomeVsExpenses.income
            /\ Total(outgoes, Len(trend)) = Answer.incomeVsExpenses.expenses

C27_InactiveIsFrozen ==
    [][\A accountId \in DOMAIN accounts :
          ~accounts[accountId].IsActive =>
              /\ accountId \in DOMAIN accounts'
              /\ accounts'[accountId] = accounts[accountId]]_vars

\* C27 witness: the owner's delete of a record that is already inactive has
\* been answered 404 and the record is as that request found it
C27_Witness ==
    /\ last.op = "delete"
    /\ last.step = "respond"
    /\ last.status = 404
    /\ last.pre # {}
    /\ ~Only(last.pre).IsActive
    /\ Only(last.pre).UserID = last.caller
    /\ accounts[last.id] = Only(last.pre)

\* C28 as claimed: a record comes into existence only through a create: a
\* step that adds a key to the user table is the step of a create request,
\* never of an update, and so a deleted record is not brought back by one.
C28_OnlyCreatesAddRecords ==
    [][(DOMAIN users' \ DOMAIN users # {}) => last'.op = "user.post"]_vars

\* the soft deletes of an account that have been applied: those still to log
\* their audit event and those that have logged it
DeletesApplied(accountId) ==
    Cardinality({r \in pending : r.op = "delete" /\ r.id = accountId})
      + Cardinality({i \in 1..Len(audit) :
                        /\ audit[i].Action = "DELETE_ACCOUNT"
                        /\ audit[i].accountId = accountId})

====
